---- MODULE Spec2Model ----
(***************************************************************************)
(* Model of the exam-api gateway: the in-memory recipeStorage and the      *)
(* three Fastify route handlers (GET infos, POST recipes, DELETE recipe).  *)
(* The repository holds three revisions of the server file; the recipe     *)
(* store and the POST/DELETE handlers are the same in all of them, the GET *)
(* infos handler differs.  `build` says which revision is running.         *)
(*                                                                         *)
(* A request is a task that suspends at its upstream calls.  Everything a  *)
(* handler does between two suspension points is one action.  `await       *)
(* fetch(..)` followed by `await response.json()` touches no shared state  *)
(* in between, so the pair is one suspension whose outcome is the status   *)
(* and the parsed body (or a rejection).                                   *)
(***************************************************************************)
EXTENDS Integers, Sequences, FiniteSets, Bags, TLC

VARIABLES build, recipes, lastId, inflight, lastResp, posted, deleted, issued

vars == <<build, recipes, lastId, inflight, lastResp, posted, deleted, issued>>

(***************************************************************************)
(* Bounds of the model.                                                    *)
(***************************************************************************)
MaxId == 2
MaxInFlight == 2

(***************************************************************************)
(* Program constants: the content length limits of the POST handler.       *)
(***************************************************************************)
MinContent == 10
MaxContent == 2000

(***************************************************************************)
(* JavaScript values, as JSON.parse produces them (plus undefined and the  *)
(* NaN that parseInt / Number produce).  A number is whole + tenths/10; a  *)
(* string is known by its length and a tag naming its (non-numeric) text.  *)
(***************************************************************************)
Undef == [t |-> "undefined"]
Null == [t |-> "null"]
NaN == [t |-> "number", nan |-> TRUE, whole |-> 0, tenths |-> 0]
Dec(w, f) == [t |-> "number", nan |-> FALSE, whole |-> w, tenths |-> f]
Num(w) == Dec(w, 0)
Str(l, g) == [t |-> "string", len |-> l, tag |-> g]
Bool(b) == [t |-> "boolean", b |-> b]
Arr(s) == [t |-> "array", items |-> s]
Obj(f) == [t |-> "object", fields |-> f]
EmptyObj == Obj([k \in {} |-> Undef])

TypeOf(v) ==
  CASE v.t = "undefined" -> "undefined"
    [] v.t = "number" -> "number"
    [] v.t = "string" -> "string"
    [] v.t = "boolean" -> "boolean"
    [] OTHER -> "object"

\* ToBoolean: what `!v` and `if (v)` test.
Truthy(v) ==
  CASE v.t = "undefined" -> FALSE
    [] v.t = "null" -> FALSE
    [] v.t = "boolean" -> v.b
    [] v.t = "number" -> ~v.nan /\ ~(v.whole = 0 /\ v.tenths = 0)
    [] v.t = "string" -> v.len > 0
    [] OTHER -> TRUE

\* Reading a property of undefined or null throws a TypeError.
Readable(v) == v.t \notin {"undefined", "null"}

\* v[k] for a readable v and a property name k.
Prop(v, k) ==
  CASE v.t = "object" -> IF k \in DOMAIN v.fields THEN v.fields[k] ELSE Undef
    [] v.t = "array" /\ k = "length" -> Num(Len(v.items))
    [] v.t = "string" /\ k = "length" -> Num(v.len)
    [] OTHER -> Undef

\* v[i] for a readable v and an index i (0-based).
Index(v, i) ==
  CASE v.t = "array" -> IF i < Len(v.items) THEN v.items[i + 1] ELSE Undef
    [] v.t = "string" -> IF i < v.len THEN Str(1, v.tag) ELSE Undef
    [] OTHER -> Undef

\* Number(v): ToNumber.  The strings of the model hold non-numeric text.
ToNumber(v) ==
  CASE v.t = "number" -> v
    [] v.t = "null" -> Num(0)
    [] v.t = "boolean" -> IF v.b THEN Num(1) ELSE Num(0)
    [] v.t = "string" -> IF v.len = 0 THEN Num(0) ELSE NaN
    [] OTHER -> NaN

\* a < n and a > n for a natural n: the relational operators convert a with
\* ToNumber and are false on NaN.
JsLess(a, n) == LET x == ToNumber(a) IN ~x.nan /\ x.whole < n
JsGreater(a, n) ==
  LET x == ToNumber(a) IN ~x.nan /\ (x.whole > n \/ (x.whole = n /\ x.tenths > 0))

IsInteger(v) == v.t = "number" /\ ~v.nan /\ v.tenths = 0
IsArray(v) == v.t = "array"

(***************************************************************************)
(* Decimal text.  A path parameter is a sequence of characters; parseInt   *)
(* reads its longest prefix of decimal digits.                             *)
(***************************************************************************)
Digits == <<"0", "1", "2", "3", "4", "5", "6", "7", "8", "9">>

IsDigit(ch) == \E d \in 1..10 : Digits[d] = ch
DigitVal(ch) == (CHOOSE d \in 1..10 : Digits[d] = ch) - 1

RECURSIVE DigitPrefix(_)
DigitPrefix(tok) ==
  IF tok = <<>> \/ ~IsDigit(Head(tok)) THEN <<>>
  ELSE <<Head(tok)>> \o DigitPrefix(Tail(tok))

RECURSIVE DigitsValue(_, _)
DigitsValue(ds, acc) ==
  IF ds = <<>> THEN acc ELSE DigitsValue(Tail(ds), 10 * acc + DigitVal(Head(ds)))

\* parseInt(token)
ParseInt(tok) ==
  LET ds == DigitPrefix(tok) IN IF ds = <<>> THEN NaN ELSE Num(DigitsValue(ds, 0))

\* The decimal text of a natural number: what String(n) and the implicit
\* conversion of parseInt(n) produce.
RECURSIVE Decimal(_)
Decimal(n) ==
  IF n < 10 THEN <<Digits[n + 1]>> ELSE Decimal(n \div 10) \o <<Digits[(n % 10) + 1]>>

\* parseInt(v) of a number: converts to text, then parses the digit prefix.
ParseIntOf(v) ==
  IF v.t = "number" /\ ~v.nan THEN ParseInt(Decimal(v.whole)) ELSE NaN

\* String(v)
ToStringJs(v) ==
  CASE v.t = "string" -> v
    [] v.t = "number" ->
         IF v.nan THEN Str(3, "NaN")
         ELSE [t |-> "string", len |-> Len(Decimal(v.whole)) + (IF v.tenths = 0 THEN 0 ELSE 2),
               tag |-> "decimal", text |-> <<v.whole, v.tenths>>]
    [] v.t = "boolean" -> IF v.b THEN Str(4, "true") ELSE Str(5, "false")
    [] v.t = "undefined" -> Str(9, "undefined")
    [] v.t = "null" -> Str(4, "null")
    [] OTHER -> [t |-> "string", len |-> 15, tag |-> "joined", text |-> v]

(***************************************************************************)
(* recipeStorage.  A store is [recipes, lastId]; every method is a         *)
(* function of the store it is called on.                                  *)
(***************************************************************************)
Store(rs, last) == [recipes |-> rs, lastId |-> last]

\* The id add() gives the record: ++this.lastId.
addId_reuse(st) == Len(st.recipes) + 1
addId(st) == st.lastId + 1

add_postIncrement(st, cityId, content) ==
  LET recipe == [id |-> st.lastId, content |-> content, cityId |-> cityId]
  IN [store |-> Store(Append(st.recipes, recipe), st.lastId + 1), recipe |-> recipe]
add(st, cityId, content) ==
  LET id == addId(st)
      recipe == [id |-> id, content |-> content, cityId |-> cityId]
  IN [store |-> Store(Append(st.recipes, recipe), id), recipe |-> recipe]

\* recipe.id === parseInt(id)
IdMatches(recipe, id) ==
  LET p == ParseInt(id) IN ~p.nan /\ p.tenths = 0 /\ p.whole = recipe.id

\* findIndex: the first position whose recipe matches, 0 when there is none.
findIndex(st, id) ==
  IF \E i \in 1..Len(st.recipes) : IdMatches(st.recipes[i], id)
  THEN CHOOSE i \in 1..Len(st.recipes) :
         /\ IdMatches(st.recipes[i], id)
         /\ \A j \in 1..(i - 1) : ~IdMatches(st.recipes[j], id)
  ELSE 0

\* getById: the first matching recipe, Undef when there is none.
getById(st, id) ==
  LET i == findIndex(st, id) IN IF i = 0 THEN Undef ELSE st.recipes[i]

getByCityId_firstOnly(st, cityId) ==
  LET found == SelectSeq(st.recipes, LAMBDA r : r.cityId = cityId)
  IN IF found = <<>> THEN <<>> ELSE <<found[1]>>
getByCityId(st, cityId) == SelectSeq(st.recipes, LAMBDA r : r.cityId = cityId)

\* splice(index, 1)
Splice(s, i) == SubSeq(s, 1, i - 1) \o SubSeq(s, i + 1, Len(s))

deleteById_keep(st, id) ==
  [store |-> st, removed |-> findIndex(st, id) # 0]
deleteById(st, id) ==
  LET i == findIndex(st, id)
  IN IF i # 0 THEN [store |-> Store(Splice(st.recipes, i), st.lastId), removed |-> TRUE]
     ELSE [store |-> st, removed |-> FALSE]

(***************************************************************************)
(* Upstream responses.  A fetch either rejects (network failure) or        *)
(* resolves to a status and a body; the body is a JSON value, or Invalid   *)
(* when response.json() rejects.                                           *)
(***************************************************************************)
Invalid == [t |-> "invalid"]
Failure == [kind |-> "failure", status |-> 0, body |-> Undef]
Response(status, body) == [kind |-> "response", status |-> status, body |-> body]

\* response.ok
Ok(resp) == resp.status >= 200 /\ resp.status <= 299

(***************************************************************************)
(* Replies.  reply.code(n).send(body); a handler that returns an object    *)
(* replies 200 with it.  JSON.stringify writes NaN as null.                *)
(***************************************************************************)
Reply(status, body) == [status |-> status, body |-> body]
ErrorReply(status, msg) == Reply(status, [error |-> msg])
InternalError == ErrorReply(500, "Internal server error")
CityNotFound == ErrorReply(404, "City not found")

JsonNumber(v) == IF v.t = "number" /\ v.nan THEN Null ELSE v

(***************************************************************************)
(* POST /cities/:cityId/recipes                                            *)
(***************************************************************************)
\* const { content } = request.body || {}
ContentOf(body) == Prop(IF Truthy(body) THEN body ELSE EmptyObj, "content")

\* The content checks, in the order of the code: the reply of the first one
\* that fails, Undef when the content passes.
PostValidate_noMin(content) ==
  IF ~Truthy(content) THEN ErrorReply(400, "Content is required")
  ELSE IF JsGreater(Prop(content, "length"), MaxContent)
  THEN ErrorReply(400, "Content is too long (maximum 2000 characters)")
  ELSE Undef
PostValidate(content) ==
  IF ~Truthy(content) THEN ErrorReply(400, "Content is required")
  ELSE IF JsLess(Prop(content, "length"), MinContent)
  THEN ErrorReply(400, "Content is too short (minimum 10 characters)")
  ELSE IF JsGreater(Prop(content, "length"), MaxContent)
  THEN ErrorReply(400, "Content is too long (maximum 2000 characters)")
  ELSE Undef

\* The handler from the return of the city fetch on: the reply and the store
\* it leaves.
PostAfterCity_addFirst(st, cityId, content, resp) ==
  LET a == add(st, cityId, content)
  IN IF resp.kind = "failure" THEN [store |-> st, reply |-> InternalError]
     ELSE IF ~Ok(resp)
     THEN IF resp.status = 404 THEN [store |-> a.store, reply |-> CityNotFound]
          ELSE [store |-> st, reply |-> InternalError]
     ELSE [store |-> a.store,
           reply |-> Reply(201, [id |-> Num(a.recipe.id), content |-> a.recipe.content])]
PostAfterCity(st, cityId, content, resp) ==
  IF resp.kind = "failure" THEN [store |-> st, reply |-> InternalError]
  ELSE IF ~Ok(resp)
  THEN IF resp.status = 404 THEN [store |-> st, reply |-> CityNotFound]
       ELSE [store |-> st, reply |-> InternalError]
  ELSE LET a == add(st, cityId, content)
       IN [store |-> a.store,
           reply |-> Reply(201, [id |-> Num(a.recipe.id), content |-> a.recipe.content])]

(***************************************************************************)
(* DELETE /cities/:cityId/recipes/:recipeId                                *)
(***************************************************************************)
DeleteAfterCity_anyCity(st, cityId, recipeId, resp) ==
  IF resp.kind = "failure" THEN [store |-> st, reply |-> InternalError]
  ELSE IF ~Ok(resp)
  THEN IF resp.status = 404 THEN [store |-> st, reply |-> CityNotFound]
       ELSE [store |-> st, reply |-> InternalError]
  ELSE LET recipe == getById(st, recipeId)
       IN IF recipe = Undef
          THEN [store |-> st, reply |-> ErrorReply(404, "Recipe not found")]
          ELSE [store |-> deleteById(st, recipeId).store, reply |-> Reply(204, Undef)]
DeleteAfterCity_idempotent(st, cityId, recipeId, resp) ==
  IF resp.kind = "failure" THEN [store |-> st, reply |-> InternalError]
  ELSE IF ~Ok(resp)
  THEN IF resp.status = 404 THEN [store |-> st, reply |-> CityNotFound]
       ELSE [store |-> st, reply |-> InternalError]
  ELSE LET recipe == getById(st, recipeId)
       IN IF recipe = Undef
          THEN [store |-> st, reply |-> Reply(204, Undef)]
          ELSE IF recipe.cityId # cityId
          THEN [store |-> st, reply |-> ErrorReply(404, "Recipe not found for this city")]
          ELSE [store |-> deleteById(st, recipeId).store, reply |-> Reply(204, Undef)]
DeleteAfterCity(st, cityId, recipeId, resp) ==
  IF resp.kind = "failure" THEN [store |-> st, reply |-> InternalError]
  ELSE IF ~Ok(resp)
  THEN IF resp.status = 404 THEN [store |-> st, reply |-> CityNotFound]
       ELSE [store |-> st, reply |-> InternalError]
  ELSE LET recipe == getById(st, recipeId)
       IN IF recipe = Undef
          THEN [store |-> st, reply |-> ErrorReply(404, "Recipe not found")]
          ELSE IF recipe.cityId # cityId
          THEN [store |-> st, reply |-> ErrorReply(404, "Recipe not found for this city")]
          ELSE [store |-> deleteById(st, recipeId).store, reply |-> Reply(204, Undef)]

(***************************************************************************)
(* GET /cities/:cityId/infos.  The handler suspends twice: at the city     *)
(* lookup and at the weather lookup.  GetAfterCity is the code between the *)
(* two: it either replies or issues the weather lookup, keeping cityData.  *)
(* GetAfterWeather is the code after the second.                           *)
(***************************************************************************)
Builds == {"index.js", "part_000", "part_001"}

ReplyNow(reply) == [next |-> "reply", reply |-> reply, cityData |-> Undef]
FetchWeather(cityData) == [next |-> "weather", reply |-> Undef, cityData |-> cityData]

\* The text of a path parameter naming a city, as a JavaScript string.
CityText(c) == Str(2, c)

\* array.find(e => e[key] === value): the first element that matches; an
\* element whose properties cannot be read makes the callback throw.
FirstHit(items, key, value) ==
  IF \E i \in 1..Len(items) : ~Readable(items[i]) \/ Prop(items[i], key) = value
  THEN CHOOSE i \in 1..Len(items) :
         /\ ~Readable(items[i]) \/ Prop(items[i], key) = value
         /\ \A j \in 1..(i - 1) : Readable(items[j]) /\ Prop(items[j], key) # value
  ELSE 0
Find(items, key, value) ==
  LET i == FirstHit(items, key, value)
  IN IF i = 0 THEN [threw |-> FALSE, value |-> Undef]
     ELSE IF ~Readable(items[i]) THEN [threw |-> TRUE, value |-> Undef]
     ELSE [threw |-> FALSE, value |-> items[i]]

\* recipes of the reply: index.js copies id and content, the other two
\* revisions pass them through parseInt and String.
RecipesRaw_all(st, cityId) ==
  [i \in 1..Len(st.recipes) |->
     [id |-> Num(st.recipes[i].id), content |-> st.recipes[i].content]]
RecipesRaw(st, cityId) ==
  LET rs == getByCityId(st, cityId)
  IN [i \in 1..Len(rs) |-> [id |-> Num(rs[i].id), content |-> rs[i].content]]
RecipesNormalized(st, cityId) ==
  LET rs == getByCityId(st, cityId)
  IN [i \in 1..Len(rs) |->
        [id |-> ParseIntOf(Num(rs[i].id)), content |-> ToStringJs(rs[i].content)]]

Prediction(when, min, max) == [when |-> when, min |-> min, max |-> max]

InfoBody(coordinates, population, knownFor, today, tomorrow, rs) ==
  [coordinates |-> coordinates, population |-> population, knownFor |-> knownFor,
   weatherPredictions |-> <<today, tomorrow>>, recipes |-> rs]

\* knownFor.map(String)
MapString(a) == Arr([i \in 1..Len(a.items) |-> ToStringJs(a.items[i])])

\* --- src/index.js ---
GetAfterCity_index(resp) ==
  IF resp.kind = "failure" THEN ReplyNow(InternalError)
  ELSE IF ~Ok(resp)
  THEN IF resp.status = 404 THEN ReplyNow(CityNotFound) ELSE ReplyNow(InternalError)
  ELSE IF resp.body = Invalid THEN ReplyNow(InternalError)
  ELSE IF ~Readable(resp.body) THEN ReplyNow(InternalError)
  ELSE IF ~Readable(Prop(resp.body, "coordinates")) THEN ReplyNow(InternalError)
  ELSE FetchWeather(resp.body)

GetAfterWeather_index(st, cityId, cityData, resp) ==
  IF resp.kind = "failure" \/ ~Ok(resp) \/ resp.body = Invalid THEN InternalError
  ELSE IF ~Readable(resp.body) THEN InternalError
  ELSE LET today == Prop(resp.body, "today")
           tomorrow == Prop(resp.body, "tomorrow")
       IN IF ~Readable(today) \/ ~Readable(tomorrow) THEN InternalError
          ELSE Reply(200, InfoBody(Prop(cityData, "coordinates"),
                                   Prop(cityData, "population"),
                                   Prop(cityData, "knownFor"),
                                   Prediction("today", JsonNumber(Prop(today, "min")),
                                              JsonNumber(Prop(today, "max"))),
                                   Prediction("tomorrow", JsonNumber(Prop(tomorrow, "min")),
                                              JsonNumber(Prop(tomorrow, "max"))),
                                   RecipesRaw(st, cityId)))

\* --- the revision that checks coordinates as a two-number array ---
GetAfterCity_001(resp) ==
  IF resp.kind = "failure" THEN ReplyNow(InternalError)
  ELSE IF ~Ok(resp)
  THEN IF resp.status = 404 THEN ReplyNow(CityNotFound) ELSE ReplyNow(InternalError)
  ELSE IF resp.body = Invalid THEN ReplyNow(InternalError)
  ELSE IF ~Readable(resp.body) THEN ReplyNow(InternalError)
  ELSE LET coordinates == Prop(resp.body, "coordinates")
           population == Prop(resp.body, "population")
       IN IF \/ ~IsArray(coordinates)
             \/ Prop(coordinates, "length") # Num(2)
             \/ TypeOf(Index(coordinates, 0)) # "number"
             \/ TypeOf(Index(coordinates, 1)) # "number"
          THEN ReplyNow(InternalError)
          ELSE IF TypeOf(population) # "number" \/ ~IsInteger(population)
          THEN ReplyNow(InternalError)
          ELSE IF ~IsArray(Prop(resp.body, "knownFor")) THEN ReplyNow(InternalError)
          ELSE FetchWeather(resp.body)

GetAfterWeather_001(st, cityId, cityData, resp) ==
  IF resp.kind = "failure" \/ ~Ok(resp) \/ resp.body = Invalid THEN InternalError
  ELSE IF ~Readable(resp.body) THEN InternalError
  ELSE LET today == Prop(resp.body, "today")
           tomorrow == Prop(resp.body, "tomorrow")
       IN IF \/ ~Truthy(today) \/ ~Truthy(tomorrow)
             \/ TypeOf(Prop(today, "min")) # "number"
             \/ TypeOf(Prop(today, "max")) # "number"
             \/ TypeOf(Prop(tomorrow, "min")) # "number"
             \/ TypeOf(Prop(tomorrow, "max")) # "number"
          THEN InternalError
          ELSE LET coordinates == Prop(cityData, "coordinates")
               IN Reply(200, InfoBody(
                    Arr(<<JsonNumber(ToNumber(Index(coordinates, 0))),
                          JsonNumber(ToNumber(Index(coordinates, 1)))>>),
                    JsonNumber(ParseIntOf(Prop(cityData, "population"))),
                    MapString(Prop(cityData, "knownFor")),
                    Prediction("today", JsonNumber(ToNumber(Prop(today, "min"))),
                               JsonNumber(ToNumber(Prop(today, "max")))),
                    Prediction("tomorrow", JsonNumber(ToNumber(Prop(tomorrow, "min"))),
                               JsonNumber(ToNumber(Prop(tomorrow, "max")))),
                    RecipesNormalized(st, cityId)))

\* --- the revision that reads coordinates as {latitude, longitude} and the
\* --- weather as a list of per-city prediction lists ---
GetAfterCity_000(resp) ==
  IF resp.kind = "failure" THEN ReplyNow(InternalError)
  ELSE IF ~Ok(resp)
  THEN IF resp.status = 404 THEN ReplyNow(CityNotFound) ELSE ReplyNow(InternalError)
  ELSE IF resp.body = Invalid THEN ReplyNow(InternalError)
  ELSE IF ~Readable(resp.body) THEN ReplyNow(InternalError)
  ELSE LET coordinates == Prop(resp.body, "coordinates")
           population == Prop(resp.body, "population")
       IN IF \/ ~Truthy(coordinates)
             \/ TypeOf(Prop(coordinates, "latitude")) # "number"
             \/ TypeOf(Prop(coordinates, "longitude")) # "number"
          THEN ReplyNow(InternalError)
          ELSE IF TypeOf(population) # "number" \/ ~IsInteger(population)
          THEN ReplyNow(InternalError)
          ELSE IF ~IsArray(Prop(resp.body, "knownFor")) THEN ReplyNow(InternalError)
          ELSE FetchWeather(resp.body)

GetAfterWeather_000(st, cityId, cityData, resp) ==
  IF resp.kind = "failure" \/ ~Ok(resp) \/ resp.body = Invalid THEN InternalError
  ELSE IF ~IsArray(resp.body) THEN InternalError
  ELSE LET found == Find(resp.body.items, "cityId", CityText(cityId))
       IN IF found.threw \/ ~Truthy(found.value) THEN InternalError
          ELSE LET predictions == Prop(found.value, "predictions")
               IN IF ~Truthy(predictions) \/ JsLess(Prop(predictions, "length"), 2)
                  THEN InternalError
                  ELSE IF ~IsArray(predictions) THEN InternalError
                  ELSE LET today == Find(predictions.items, "when", Str(5, "today"))
                           tomorrow == Find(predictions.items, "when", Str(8, "tomorrow"))
                           coordinates == Prop(cityData, "coordinates")
                       IN IF today.threw \/ tomorrow.threw THEN InternalError
                          ELSE IF ~Truthy(today.value) \/ ~Truthy(tomorrow.value)
                          THEN InternalError
                          ELSE Reply(200, InfoBody(
                                 Arr(<<JsonNumber(ToNumber(Prop(coordinates, "latitude"))),
                                       JsonNumber(ToNumber(Prop(coordinates, "longitude")))>>),
                                 JsonNumber(ParseIntOf(Prop(cityData, "population"))),
                                 MapString(Prop(cityData, "knownFor")),
                                 Prediction("today",
                                            JsonNumber(ToNumber(Prop(today.value, "min"))),
                                            JsonNumber(ToNumber(Prop(today.value, "max")))),
                                 Prediction("tomorrow",
                                            JsonNumber(ToNumber(Prop(tomorrow.value, "min"))),
                                            JsonNumber(ToNumber(Prop(tomorrow.value, "max")))),
                                 RecipesNormalized(st, cityId)))

GetAfterCity(b, resp) ==
  CASE b = "index.js" -> GetAfterCity_index(resp)
    [] b = "part_000" -> GetAfterCity_000(resp)
    [] b = "part_001" -> GetAfterCity_001(resp)

GetAfterWeather(b, st, cityId, cityData, resp) ==
  CASE b = "index.js" -> GetAfterWeather_index(st, cityId, cityData, resp)
    [] b = "part_000" -> GetAfterWeather_000(st, cityId, cityData, resp)
    [] b = "part_001" -> GetAfterWeather_001(st, cityId, cityData, resp)

(***************************************************************************)
(* Inputs: the requests clients send and the answers the upstream gives.   *)
(***************************************************************************)
Cities == {"c1", "c2"}

Short == Str(9, "too short")
Least == Str(MinContent, "ten chars.")
Most == Str(MaxContent, "two thousand chars")
Long == Str(MaxContent + 1, "two thousand and one chars")

\* Values of the content field of a POST body.
Contents ==
  {Undef, Null, Str(0, ""), Short, Least, Most, Long, Num(0), Num(12345),
   Bool(TRUE), Arr(<<Least, Least, Least>>)}

\* POST bodies: none, or a JSON object with or without a content field.
Bodies == {Undef, EmptyObj} \cup {Obj([content |-> c]) : c \in Contents \ {Undef}}

\* The body of the interleaving specification: a text of accepted length.
FewBodies == {Obj([content |-> c]) : c \in {Least}}

\* Bodies with two different texts of accepted length.
TextBodies == {Obj([content |-> c]) : c \in {Least, Most}}

\* recipeId path parameters: the decimal ids, and a token that is not one.
RecipeIds == {Decimal(i) : i \in 1..MaxId} \cup {<<"1", "a", "b", "c">>}

\* Outcomes of the city lookup when only its status is read.
CityStatuses ==
  {Response(200, EmptyObj), Response(404, EmptyObj), Response(500, EmptyObj), Failure}

Paris == <<Dec(48, 8), Dec(2, 3)>>
LatLon == Obj([latitude |-> Paris[1], longitude |-> Paris[2]])
Labels == Arr(<<Str(4, "wine"), Str(6, "cheese")>>)

City(coordinates, population, knownFor) ==
  Obj([coordinates |-> coordinates, population |-> population, knownFor |-> knownFor])

\* City payloads of the shape each revision expects.
CityAsArray == City(Arr(Paris), Num(2000), Labels)
CityAsObject == City(LatLon, Num(2000), Labels)

Range(min, max) == Obj([min |-> min, max |-> max])
Forecast(cityId, predictions) ==
  Obj([cityId |-> CityText(cityId), predictions |-> Arr(predictions)])
OnDay(when, l, min, max) == Obj([when |-> Str(l, when), min |-> min, max |-> max])

\* Weather payloads of the shape each revision expects.
WeatherAsObject ==
  Obj([today |-> Range(Num(3), Num(11)), tomorrow |-> Range(Dec(4, 5), Num(12))])
WeatherAsList ==
  Arr(<<Forecast("c1", <<OnDay("today", 5, Num(3), Num(11)),
                         OnDay("tomorrow", 8, Dec(4, 5), Num(12))>>),
        Forecast("c2", <<OnDay("tomorrow", 8, Num(1), Num(2)),
                         OnDay("today", 5, Num(0), Num(1))>>)>>)

\* Every answer of the city lookup: both well-formed payloads, payloads with
\* one field of the wrong type, bodies that are no object or no JSON, and
\* the failures.
AllCityAnswers ==
  {Response(200, CityAsArray), Response(200, CityAsObject),
   Response(200, City(Arr(<<Str(4, "48.8"), Paris[2]>>), Num(2000), Labels)),
   Response(200, City(Arr(Paris \o <<Num(35)>>), Num(2000), Labels)),
   Response(200, City(Arr(Paris), Dec(2000, 5), Labels)),
   Response(200, City(LatLon, Str(4, "many"), Labels)),
   Response(200, City(Arr(Paris), Num(2000), Str(4, "wine"))),
   Response(200, EmptyObj), Response(200, Null), Response(200, Invalid),
   Response(404, EmptyObj), Response(500, EmptyObj), Failure}

\* Every answer of the weather lookup.
AllWeatherAnswers ==
  {Response(200, WeatherAsObject), Response(200, WeatherAsList),
   Response(200, Obj([today |-> Range(Num(3), Num(11))])),
   Response(200, Obj([today |-> Range(Str(4, "cold"), Num(11)),
                      tomorrow |-> Range(Num(4), Num(12))])),
   Response(200, Arr(<<Forecast("c1", <<Obj([when |-> Str(5, "today"), max |-> Num(11)]),
                                        OnDay("tomorrow", 8, Num(4), Num(12))>>)>>)),
   Response(200, Arr(<<Forecast("c1", <<OnDay("today", 5, Num(3), Num(11))>>)>>)),
   Response(200, Arr(<<Null, Forecast("c1", <<>>)>>)),
   Response(200, Null), Response(200, Invalid),
   Response(404, EmptyObj), Response(500, EmptyObj), Failure}

\* Answers that let each revision reply 200: the payload shapes of all three.
ShapedCityAnswers ==
  {Response(200, CityAsArray), Response(200, CityAsObject), Response(404, EmptyObj)}
ShapedWeatherAnswers ==
  {Response(200, WeatherAsObject), Response(200, WeatherAsList), Failure}

\* The answers of the interleaving specification: the payloads index.js is
\* written for, a not-found city, and a failed lookup.
CityAnswers == {Response(200, CityAsArray), Response(404, EmptyObj), Failure}
WeatherAnswers == {Response(200, WeatherAsObject), Failure}

(***************************************************************************)
(* Requests in flight, and the reply the latest step sent (Nothing when    *)
(* that step sent none).                                                   *)
(***************************************************************************)
None == [kind |-> "none", status |-> 0, body |-> Undef]

\* A request task: its parameters, where it is suspended, and the lookups it
\* has issued so far.
Task(kind, cityId, content, recipeId, pc, city, cityCalls, weatherCalls) ==
  [kind |-> kind, cityId |-> cityId, content |-> content, recipeId |-> recipeId,
   pc |-> pc, city |-> city, cityCalls |-> cityCalls, weatherCalls |-> weatherCalls]

\* A reply on the wire, with the request it answers, the upstream answers the
\* request saw, and the store and the set of ids already deleted as they
\* were when the replying step began.
Sent(task, city, weather, reply, before, gone) ==
  [req |-> task, city |-> city, weather |-> weather, reply |-> reply, before |-> before,
   gone |-> gone]

NoTask == Task("none", "", Undef, <<>>, "done", None, 0, 0)
Nothing == Sent(NoTask, None, None, Reply(0, Undef), Store(<<>>, 0), {})

Current == Store(recipes, lastId)
Room == BagCardinality(inflight) < MaxInFlight
Suspended_oneAtATime(kind, pc) ==
  {r \in BagToSet(inflight) :
     r.kind = kind /\ r.pc = pc /\ \A o \in BagToSet(inflight) : o.pc # "hung"}
Suspended(kind, pc) == {r \in BagToSet(inflight) : r.kind = kind /\ r.pc = pc}
Start(task) == inflight' = inflight (+) SetToBag({task})
Finish(task) == inflight' = inflight (-) SetToBag({task})

InitWith(bs) ==
  /\ build \in bs
  /\ recipes = <<>>
  /\ lastId = 0
  /\ inflight = EmptyBag
  /\ lastResp = Nothing
  /\ posted = {}
  /\ deleted = {}
  /\ issued = <<>>

(***************************************************************************)
(* POST: the content checks run before the first suspension; a request     *)
(* that fails them is answered at once, one that passes issues the city    *)
(* lookup and suspends.                                                    *)
(***************************************************************************)
PostRequest(cs, bs) ==
  \E c \in cs, body \in bs :
    LET content == ContentOf(body)
        verdict == PostValidate(content)
    IN IF verdict # Undef
       THEN /\ lastResp' = Sent(Task("POST", c, content, <<>>, "done", None, 0, 0),
                                None, None, verdict, Current, deleted)
            /\ UNCHANGED <<build, recipes, lastId, inflight, posted, deleted, issued>>
       ELSE /\ Room
            /\ Start(Task("POST", c, content, <<>>, "city", None, 1, 0))
            /\ lastResp' = Nothing
            /\ UNCHANGED <<build, recipes, lastId, posted, deleted, issued>>

PostCityReturn ==
  \E r \in Suspended("POST", "city"), resp \in CityStatuses :
    LET out == PostAfterCity(Current, r.cityId, r.content, resp)
    IN /\ out.store.lastId <= MaxId
       /\ recipes' = out.store.recipes
       /\ lastId' = out.store.lastId
       /\ Finish(r)
       /\ lastResp' = Sent(r, resp, None, out.reply, Current, deleted)
       /\ IF out.reply.status = 201
          THEN /\ issued' = Append(issued, out.reply.body.id.whole)
               /\ posted' = posted \cup {[id |-> out.reply.body.id.whole,
                                          cityId |-> r.cityId, content |-> r.content]}
          ELSE UNCHANGED <<issued, posted>>
       /\ UNCHANGED <<build, deleted>>

(***************************************************************************)
(* DELETE                                                                  *)
(***************************************************************************)
DeleteRequest(cs) ==
  \E c \in cs, id \in RecipeIds :
    /\ Room
    /\ Start(Task("DELETE", c, Undef, id, "city", None, 1, 0))
    /\ lastResp' = Nothing
            /\ UNCHANGED <<build, recipes, lastId, posted, deleted, issued>>

DeleteCityReturn ==
  \E r \in Suspended("DELETE", "city"), resp \in CityStatuses :
    LET out == DeleteAfterCity(Current, r.cityId, r.recipeId, resp)
        id == ParseInt(r.recipeId).whole
    IN /\ recipes' = out.store.recipes
       /\ lastId' = out.store.lastId
       /\ Finish(r)
       /\ lastResp' = Sent(r, resp, None, out.reply, Current, deleted)
       /\ IF out.reply.status = 204
          THEN /\ deleted' = deleted \cup {id}
               /\ posted' = {p \in posted : p.id # id}
          ELSE UNCHANGED <<deleted, posted>>
       /\ UNCHANGED <<build, issued>>

(***************************************************************************)
(* GET infos                                                               *)
(***************************************************************************)
GetRequest(cs) ==
  \E c \in cs :
    /\ Room
    /\ Start(Task("GET", c, Undef, <<>>, "city", None, 1, 0))
    /\ lastResp' = Nothing
            /\ UNCHANGED <<build, recipes, lastId, posted, deleted, issued>>

GetCityReturn(answers) ==
  \E r \in Suspended("GET", "city"), resp \in answers :
    LET out == GetAfterCity(build, resp)
    IN IF out.next = "reply"
       THEN /\ Finish(r)
            /\ lastResp' = Sent(r, resp, None, out.reply, Current, deleted)
            /\ UNCHANGED <<build, recipes, lastId, posted, deleted, issued>>
       ELSE /\ inflight' = (inflight (-) SetToBag({r})) (+)
                           SetToBag({[r EXCEPT !.pc = "weather", !.city = resp,
                                                !.weatherCalls = r.weatherCalls + 1]})
            /\ lastResp' = Nothing
            /\ UNCHANGED <<build, recipes, lastId, posted, deleted, issued>>

GetWeatherReturn(answers) ==
  \E r \in Suspended("GET", "weather"), resp \in answers :
    /\ Finish(r)
    /\ lastResp' = Sent(r, r.city, resp,
                        GetAfterWeather(build, Current, r.cityId, r.city.body, resp), Current, deleted)
    /\ UNCHANGED <<build, recipes, lastId, posted, deleted, issued>>

Next ==
  \/ PostRequest(Cities, FewBodies)
  \/ PostCityReturn
  \/ DeleteRequest(Cities)
  \/ DeleteCityReturn
  \/ GetRequest(Cities)
  \/ GetCityReturn(CityAnswers)
  \/ GetWeatherReturn(WeatherAnswers)

\* The server of src/index.js under interleaved requests.
Init == InitWith({"index.js"})

Spec == Init /\ [][Next]_vars

\* The same server receiving POSTs with every kind of body.
NextPost ==
  \/ PostRequest({"c1"}, Bodies)
  \/ PostCityReturn
  \/ GetRequest({"c1"})
  \/ GetCityReturn(CityAnswers)
  \/ GetWeatherReturn(WeatherAnswers)

SpecPost == Init /\ [][NextPost]_vars

\* Each revision of the server, its upstream giving every kind of answer.
InitInfo == InitWith(Builds)

\* Each revision of the server, one city, recipes with different texts.
NextTexts ==
  \/ PostRequest({"c1"}, TextBodies)
  \/ PostCityReturn
  \/ DeleteRequest({"c1"})
  \/ DeleteCityReturn
  \/ GetRequest({"c1"})
  \/ GetCityReturn(ShapedCityAnswers)
  \/ GetWeatherReturn(ShapedWeatherAnswers)

SpecTexts == InitInfo /\ [][NextTexts]_vars

NextInfo ==
  \/ PostRequest({"c1"}, FewBodies)
  \/ PostCityReturn
  \/ GetRequest({"c1"})
  \/ GetCityReturn(AllCityAnswers)
  \/ GetWeatherReturn(AllWeatherAnswers)

SpecInfo == InitInfo /\ [][NextInfo]_vars

(***************************************************************************)
(* Hung upstream calls.  A lookup that never settles leaves its request    *)
(* suspended at the await for ever: the request keeps its place among the  *)
(* requests in flight and takes no further step.  A request whose lookup   *)
(* settles is resumed by the event loop, whatever the others do.           *)
(***************************************************************************)
UpstreamHangs ==
  \E r \in BagToSet(inflight) :
    /\ r.pc \in {"city", "weather"}
    /\ inflight' = (inflight (-) SetToBag({r})) (+) SetToBag({[r EXCEPT !.pc = "hung"]})
    /\ lastResp' = Nothing
    /\ UNCHANGED <<build, recipes, lastId, posted, deleted, issued>>

\* The requests of the specification with hung lookups, at their awaits.
Requests ==
  {Task("POST", "c1", ContentOf(b), <<>>, "city", None, 1, 0) : b \in FewBodies}
    \cup {Task("DELETE", "c1", Undef, id, "city", None, 1, 0) : id \in RecipeIds}
    \cup {Task("GET", "c1", Undef, <<>>, "city", None, 1, 0)}
    \cup {Task("GET", "c1", Undef, <<>>, "weather", a, 1, 1) :
            a \in {x \in CityAnswers : GetAfterCity("index.js", x).next # "reply"}}

Resume ==
  \/ PostCityReturn
  \/ DeleteCityReturn
  \/ GetCityReturn(CityAnswers)
  \/ GetWeatherReturn(WeatherAnswers)

\* The continuation of request r runs: its lookup has settled.
ResumeOf(r) ==
  /\ CopiesIn(r, inflight) > 0
  /\ \/ r.kind = "POST" /\ PostCityReturn
     \/ r.kind = "DELETE" /\ DeleteCityReturn
     \/ r.kind = "GET" /\ r.pc = "city" /\ GetCityReturn(CityAnswers)
     \/ r.kind = "GET" /\ r.pc = "weather" /\ GetWeatherReturn(WeatherAnswers)
  /\ CopiesIn(r, inflight') < CopiesIn(r, inflight)

NextLive ==
  \/ PostRequest({"c1"}, FewBodies)
  \/ DeleteRequest({"c1"})
  \/ GetRequest({"c1"})
  \/ Resume
  \/ UpstreamHangs

\* The event loop runs the continuation of every request whose lookup settled.
SpecLive == Init /\ [][NextLive]_vars /\ \A r \in Requests : WF_vars(ResumeOf(r))

(***************************************************************************)
(* Properties.                                                             *)
(***************************************************************************)
Replied(kind) == lastResp.req.kind = kind
Status == lastResp.reply.status
IsText(v) == v.t = "string"
Accepted(v) == IsText(v) /\ v.len >= MinContent /\ v.len <= MaxContent
Listed == {lastResp.reply.body.recipes[k] : k \in DOMAIN lastResp.reply.body.recipes}

\* C1: the ids of the 201 replies, in the order the insertions happen, are
\* strictly increasing, so none is given twice, whatever was deleted between.
C1_IdsStrictlyIncreasing ==
  \A i, j \in DOMAIN issued : i < j => issued[i] < issued[j]

\* A POST is answered 201 after a recipe with an earlier id was deleted.
C1_Witness ==
  /\ Replied("POST") /\ Status = 201
  /\ Len(issued) >= 2
  /\ \E d \in deleted : d < lastResp.reply.body.id.whole

\* C2: a 200 reply of GET infos for city c lists {id, content} of every recipe
\* that a POST for c with a text of 10 to 2000 characters created (201) and
\* that no DELETE has removed since.
C2_PostedIsListed ==
  (Replied("GET") /\ Status = 200) =>
    \A p \in posted :
      (p.cityId = lastResp.req.cityId /\ Accepted(p.content)) =>
        [id |-> Num(p.id), content |-> p.content] \in Listed

\* A GET infos is answered 200 for a city that has two live recipes while
\* another recipe was deleted or belongs to the other city.
C2_Witness ==
  /\ Replied("GET") /\ Status = 200
  /\ Cardinality({p \in posted : p.cityId = lastResp.req.cityId}) >= 2

\* C3: once a DELETE was answered 204 for recipe i, no 200 reply of GET infos
\* lists i, and every DELETE of i whose city lookup succeeds is answered 404.
C3_DeletedStaysDeleted ==
  /\ (Replied("GET") /\ Status = 200) =>
       \A e \in Listed : e.id.whole \notin deleted
  /\ (Replied("DELETE") /\ Ok(lastResp.city)) =>
       LET p == ParseInt(lastResp.req.recipeId)
       IN (~p.nan /\ p.whole \in lastResp.gone) => Status = 404

\* A DELETE of an id deleted earlier is answered 404 after a later POST.
C3_Witness ==
  /\ Replied("DELETE") /\ Ok(lastResp.city) /\ Status = 404
  /\ ParseInt(lastResp.req.recipeId).whole \in lastResp.gone
  /\ lastResp.before.recipes # <<>>

\* C4: a POST whose city lookup answers 404 is answered 404 "City not found"
\* and leaves the recipes and the id counter as they were.
C4_UnknownCityInsertsNothing ==
  (Replied("POST") /\ lastResp.city.kind = "response" /\ lastResp.city.status = 404) =>
    /\ lastResp.reply = CityNotFound
    /\ Current = lastResp.before

\* A POST with accepted content is answered 404 while the store holds a recipe.
C4_Witness ==
  /\ Replied("POST") /\ lastResp.city.status = 404 /\ Status = 404
  /\ Accepted(lastResp.req.content)
  /\ recipes # <<>>

\* C5: a DELETE (city lookup succeeding) of a recipe stored under another city
\* than the one in the path is answered 404 and removes nothing: the recipe is
\* still stored and still listed for its own city.
C5_WrongCityDeletesNothing ==
  (Replied("DELETE") /\ Ok(lastResp.city)) =>
    LET recipe == getById(lastResp.before, lastResp.req.recipeId)
    IN (recipe # Undef /\ recipe.cityId # lastResp.req.cityId) =>
         /\ Status = 404
         /\ Current = lastResp.before
         /\ \E k \in DOMAIN recipes : recipes[k] = recipe
         /\ \E k \in DOMAIN RecipesRaw(Current, recipe.cityId) :
              RecipesRaw(Current, recipe.cityId)[k] =
                [id |-> Num(recipe.id), content |-> recipe.content]

\* A DELETE names a recipe of the other city and is answered 404.
C5_Witness ==
  /\ Replied("DELETE") /\ Ok(lastResp.city) /\ Status = 404
  /\ getById(lastResp.before, lastResp.req.recipeId) # Undef
  /\ getById(lastResp.before, lastResp.req.recipeId).cityId # lastResp.req.cityId

\* C6: the reply to a DELETE (city lookup succeeding) of a recipe stored
\* under another city is the reply the same DELETE gets from the store that
\* differs only in not holding that recipe: same status, same body.
C6_WrongCityLooksAbsent ==
  (Replied("DELETE") /\ Ok(lastResp.city)) =>
    LET recipe == getById(lastResp.before, lastResp.req.recipeId)
        k == findIndex(lastResp.before, lastResp.req.recipeId)
        without == Store(Splice(lastResp.before.recipes, k), lastResp.before.lastId)
    IN (recipe # Undef /\ recipe.cityId # lastResp.req.cityId) =>
         lastResp.reply =
           DeleteAfterCity(without, lastResp.req.cityId, lastResp.req.recipeId,
                           lastResp.city).reply

\* C7: a POST whose content is absent or empty, a text shorter than 10, or a
\* text longer than 2000 characters is answered 400 with the message of that
\* rule, has issued no upstream call, and leaves the store as it was; no
\* request with such a content is ever waiting for the city lookup.
Absent(v) == v = Undef \/ (IsText(v) /\ v.len = 0)
TooShort(v) == IsText(v) /\ v.len > 0 /\ v.len < MinContent
TooLong(v) == IsText(v) /\ v.len > MaxContent

C7_InvalidContentRejectedFirst ==
  /\ Replied("POST") =>
       LET content == lastResp.req.content
       IN /\ Absent(content) => lastResp.reply = ErrorReply(400, "Content is required")
          /\ TooShort(content) =>
               lastResp.reply = ErrorReply(400, "Content is too short (minimum 10 characters)")
          /\ TooLong(content) =>
               lastResp.reply = ErrorReply(400, "Content is too long (maximum 2000 characters)")
          /\ (Absent(content) \/ TooShort(content) \/ TooLong(content)) =>
               /\ lastResp.req.cityCalls = 0
               /\ lastResp.city = None
               /\ Current = lastResp.before
  /\ \A r \in BagToSet(inflight) :
       r.kind = "POST" => ~(Absent(r.content) \/ TooShort(r.content) \/ TooLong(r.content))

\* A too-short content is rejected while the store holds a recipe and another
\* request is waiting for its lookup.
C7_Witness ==
  /\ Replied("POST") /\ TooShort(lastResp.req.content) /\ Status = 400
  /\ recipes # <<>>
  /\ inflight # EmptyBag

\* C8: every stored recipe has a text of 10 to 2000 characters as content.
C8_StoredContentIsText ==
  \A k \in DOMAIN recipes : Accepted(recipes[k].content)

\* C9: a 200 reply of GET infos has two numbers as coordinates, an integer
\* population, and exactly the entries today and tomorrow, in that order, with
\* numeric min and max.
IsNumber(v) == v.t = "number" /\ ~v.nan

C9_InfoReplyShape ==
  (Replied("GET") /\ Status = 200) =>
    LET body == lastResp.reply.body
        wp == body.weatherPredictions
    IN /\ IsArray(body.coordinates)
       /\ Len(body.coordinates.items) = 2
       /\ \A i \in 1..2 : IsNumber(body.coordinates.items[i])
       /\ IsInteger(body.population)
       /\ Len(wp) = 2
       /\ wp[1].when = "today" /\ wp[2].when = "tomorrow"
       /\ \A i \in 1..2 : IsNumber(wp[i].min) /\ IsNumber(wp[i].max)

\* C10: GET infos answers 404 "City not found" exactly when the city lookup
\* answers 404, and 500 "Internal server error" when the city lookup fails
\* otherwise, the city payload has not the expected shape, or the weather
\* lookup fails or its payload has not the expected shape.
TwoNumbers(v) ==
  \/ IsArray(v) /\ Len(v.items) = 2 /\ \A i \in 1..2 : IsNumber(v.items[i])
  \/ v.t = "object" /\ IsNumber(Prop(v, "latitude")) /\ IsNumber(Prop(v, "longitude"))
CityShape(b) ==
  /\ b.t = "object"
  /\ TwoNumbers(Prop(b, "coordinates"))
  /\ IsInteger(Prop(b, "population"))
  /\ IsArray(Prop(b, "knownFor"))
HasRange(v) == v.t = "object" /\ IsNumber(Prop(v, "min")) /\ IsNumber(Prop(v, "max"))
HasDay(predictions, when) ==
  /\ IsArray(predictions)
  /\ \E i \in DOMAIN predictions.items :
       /\ predictions.items[i].t = "object"
       /\ Prop(predictions.items[i], "when") = when
       /\ HasRange(predictions.items[i])
WeatherShape(b, cityId) ==
  \/ b.t = "object" /\ HasRange(Prop(b, "today")) /\ HasRange(Prop(b, "tomorrow"))
  \/ /\ IsArray(b)
     /\ \E i \in DOMAIN b.items :
          /\ b.items[i].t = "object"
          /\ Prop(b.items[i], "cityId") = CityText(cityId)
          /\ HasDay(Prop(b.items[i], "predictions"), Str(5, "today"))
          /\ HasDay(Prop(b.items[i], "predictions"), Str(8, "tomorrow"))
Found(resp) == resp.kind = "response" /\ Ok(resp)

C10_InfoFailureStatuses ==
  Replied("GET") =>
    /\ lastResp.reply = CityNotFound <=>
         (lastResp.city.kind = "response" /\ lastResp.city.status = 404)
    /\ Status = 404 => lastResp.reply = CityNotFound
    /\ ( \/ lastResp.city.kind = "failure"
         \/ (~Ok(lastResp.city) /\ lastResp.city.status # 404)
         \/ (Found(lastResp.city) /\ ~CityShape(lastResp.city.body))
         \/ lastResp.weather.kind = "failure"
         \/ (lastResp.weather.kind = "response" /\ ~Ok(lastResp.weather))
         \/ (Found(lastResp.weather)
             /\ ~WeatherShape(lastResp.weather.body, lastResp.req.cityId)) )
       => lastResp.reply = InternalError

\* C11: of the DELETEs of one existing recipe that are in flight together
\* (same city, city lookup succeeding) the first to resume is answered 204 and
\* removes that recipe and no other; each of the others finds the id already
\* deleted, is answered 404 "Recipe not found" and removes nothing.
Target(task) == ParseInt(task.recipeId)
Twins(task) ==
  {r \in BagToSet(inflight) :
     r.kind = "DELETE" /\ r.cityId = task.cityId /\ Target(r) = Target(task)}
Without(rs, id) == SelectSeq(rs, LAMBDA x : x.id # id)

C11_OneDeleteWins ==
  (Replied("DELETE") /\ Ok(lastResp.city) /\ ~Target(lastResp.req).nan) =>
    LET id == Target(lastResp.req).whole
        mine == {k \in DOMAIN lastResp.before.recipes :
                   /\ lastResp.before.recipes[k].id = id
                   /\ lastResp.before.recipes[k].cityId = lastResp.req.cityId}
    IN /\ mine # {} =>
            /\ Status = 204
            /\ id \notin lastResp.gone
            /\ recipes = Without(lastResp.before.recipes, id)
            /\ Len(recipes) = Len(lastResp.before.recipes) - 1
       /\ id \in lastResp.gone =>
            /\ lastResp.reply = ErrorReply(404, "Recipe not found")
            /\ Current = lastResp.before
       /\ Status = 204 => mine # {}
       /\ \A r \in Twins(lastResp.req) :
            id \in deleted =>
              DeleteAfterCity(Current, r.cityId, r.recipeId, lastResp.city) =
                [store |-> Current, reply |-> ErrorReply(404, "Recipe not found")]

\* One of two DELETEs of the same recipe is answered 204 while the other is
\* still waiting for its city lookup and another recipe is stored.
C11_Witness ==
  /\ Replied("DELETE") /\ Status = 204
  /\ Twins(lastResp.req) # {}
  /\ recipes # <<>>

\* C12: one GET infos request issues the city lookup exactly once and the
\* weather lookup at most once, and the weather lookup only after the city
\* lookup answered 2xx with a payload of the expected shape: never after a 404,
\* a failed lookup or a malformed city payload.
WeatherIssuedRightly(task, city) ==
  /\ task.cityCalls = 1
  /\ task.weatherCalls <= 1
  /\ task.weatherCalls = 1 => (Found(city) /\ CityShape(city.body))

C12_LookupsIssuedOnce ==
  /\ \A r \in BagToSet(inflight) :
       r.kind = "GET" =>
         /\ r.pc = "city" => (r.cityCalls = 1 /\ r.weatherCalls = 0)
         /\ r.pc = "weather" => (r.weatherCalls = 1 /\ WeatherIssuedRightly(r, r.city))
  /\ Replied("GET") => WeatherIssuedRightly(lastResp.req, lastResp.city)

\* C13: a request whose own lookups settle, with success or failure, is
\* eventually answered, however many other requests are suspended for ever on
\* hung lookups; a hung request keeps no other request from the store.
\* Requests are told apart by method and parameters.
SameRequest(a, b) ==
  /\ a.kind = b.kind /\ a.cityId = b.cityId
  /\ a.content = b.content /\ a.recipeId = b.recipeId
Answered(r) == SameRequest(lastResp.req, r) /\ Status # 0
Stalled(r) == \E h \in BagToSet(inflight) : h.pc = "hung" /\ SameRequest(h, r)

C13_SettledRequestIsAnswered ==
  \A r \in Requests : (CopiesIn(r, inflight) > 0) ~> (Answered(r) \/ Stalled(r))

\* A POST is answered 201 and a recipe stored while another request is
\* suspended on a hung lookup.
C13_Witness ==
  /\ Replied("POST") /\ Status = 201
  /\ Current # lastResp.before
  /\ \E h \in BagToSet(inflight) : h.pc = "hung" /\ ~SameRequest(h, lastResp.req)

\* C14: a DELETE answered 204 removes exactly the recipe whose id is the
\* requested recipeId and leaves every other recipe and the id counter as they
\* were; a DELETE answered anything else leaves the whole store as it was,
\* also when the recipe exists in the right city and the city lookup answers
\* not-found or fails.
RemovedAt(before, k) ==
  [i \in 1..(Len(before) - 1) |-> IF i < k THEN before[i] ELSE before[i + 1]]

C14_DeleteFrame ==
  Replied("DELETE") =>
    IF Status = 204
    THEN /\ lastId = lastResp.before.lastId
         /\ \E k \in DOMAIN lastResp.before.recipes :
              /\ Decimal(lastResp.before.recipes[k].id) = lastResp.req.recipeId
              /\ recipes = RemovedAt(lastResp.before.recipes, k)
    ELSE Current = lastResp.before

\* C15: the recipes of a 200 reply of GET infos for city c are exactly the
\* stored recipes of c at the moment the reply is assembled, after both
\* lookups returned, in insertion order and with no recipe of another city;
\* GET infos changes neither the store nor the id counter.
OfCity(st, cityId) == {i \in DOMAIN st.recipes : st.recipes[i].cityId = cityId}
Nth(positions, k) ==
  CHOOSE i \in positions : Cardinality({j \in positions : j <= i}) = k

C15_InfoListsCityRecipes ==
  Replied("GET") =>
    /\ Current = lastResp.before
    /\ Status = 200 =>
         LET listed == lastResp.reply.body.recipes
             mine == OfCity(Current, lastResp.req.cityId)
         IN /\ Len(listed) = Cardinality(mine)
            /\ \A k \in DOMAIN listed :
                 /\ listed[k].id = Num(recipes[Nth(mine, k)].id)
                 /\ listed[k].content = recipes[Nth(mine, k)].content

\* A GET infos is answered 200 with a recipe of its city while the store also
\* holds a recipe of the other city.
C15_Witness ==
  /\ Replied("GET") /\ Status = 200
  /\ lastResp.reply.body.recipes # <<>>
  /\ \E i \in DOMAIN recipes : recipes[i].cityId # lastResp.req.cityId

\* C16: recipe lookup by id is an exact match: a DELETE whose recipeId is not
\* exactly the identifier of a stored recipe, such as "1abc" when recipe 1
\* exists, is answered 404 "Recipe not found" once the city is found, and
\* removes nothing.
NamesStored(st, token) == \E k \in DOMAIN st.recipes : Decimal(st.recipes[k].id) = token

C16_ExactIdMatch ==
  (/\ Replied("DELETE")
   /\ Ok(lastResp.city)
   /\ ~NamesStored(lastResp.before, lastResp.req.recipeId)) =>
    /\ lastResp.reply = ErrorReply(404, "Recipe not found")
    /\ Current = lastResp.before

\* C17: in every reachable state the id counter is the number of POSTs
\* answered 201 so far and at least the largest id in the store; a POST
\* answered 400, 404 or 500 consumes no id, so the ids of the 201 replies are
\* 1, 2, 3, ... without gaps, and the ids in the store are pairwise distinct.
C17_CounterCountsCreations ==
  /\ lastId = Len(issued)
  /\ \A k \in DOMAIN issued : issued[k] = k
  /\ \A i \in DOMAIN recipes : recipes[i].id <= lastId
  /\ \A i, j \in DOMAIN recipes : i # j => recipes[i].id # recipes[j].id
  /\ (Replied("POST") /\ Status # 201) =>
       (Status \in {400, 404, 500} /\ lastId = lastResp.before.lastId)
  /\ (Replied("POST") /\ Status = 201) =>
       (lastId = lastResp.before.lastId + 1 /\ lastResp.reply.body.id = Num(lastId))

\* A POST is rejected with 400 after one recipe was created, and a later POST
\* can still be given the next id.
C17_Witness ==
  /\ Replied("POST") /\ Status = 400
  /\ lastId >= 1 /\ lastId < MaxId
  /\ Suspended("POST", "city") # {}

====
